---------------------------- MODULE Spec2Model ----------------------------
(***************************************************************************)
(* Opening Arena (opening_arena_working_105.py): two repertoire tries are  *)
(* built from recorded game trees, the simulator walks both tries from the *)
(* starting position, and the final position is classified (mate record)   *)
(* or handed to the statistics lookup.                                     *)
(*                                                                         *)
(* The chess rules (python-chess) are a collaborator.  They are modelled   *)
(* by a finite rules table: a placement is a number, a move is its UCI     *)
(* string, and each table row says what Board.push does with the move on   *)
(* that placement and whether the move is in Board.legal_moves.            *)
(***************************************************************************)
EXTENDS Integers, Sequences, FiniteSets, TLC

VARIABLES pc, push_atomic, game_count, white_tree, black_tree,
          board, san_sequence, stop, result, lookups, last_insert,
          last_game, no_games,
          white_moves, black_games, white_index, black_index,
          played_white_moves, move_stack

\* last_game: the game handed to the traversal by the build loop's latest
\* iteration (the local "game" of build_white_tree / build_black_tree);
\* no_games: the sides whose build logged "Loaded 0 games".
\* The last six are the state of the line-based revisions (002, 003): the
\* loaded repertoires, the locals of simulate_opening, and the move_stack
\* of its board.
line_vars == <<white_moves, black_games, white_index, black_index,
               played_white_moves, move_stack>>

vars == <<pc, push_atomic, game_count, white_tree, black_tree,
          board, san_sequence, stop, result, lookups, last_insert,
          last_game, no_games, line_vars>>

(***************************************************************************)
(* Bounds of the model.                                                    *)
(***************************************************************************)
\* games read from one repertoire file
MaxGames == 2
\* plies after which the model stops extending a walk
MaxPly == 12

(***************************************************************************)
(* The rules table.                                                        *)
(***************************************************************************)
R(f, m, s, t, l, z) ==
    [from |-> f, move |-> m, side |-> s, to |-> t, legal |-> l, zero |-> z]

\* Rows: placement, move, owner of the moved piece, resulting placement,
\* legal for the owner, resets the halfmove clock (pawn move or capture).
\* A (placement, move) pair without a row has no piece on the from-square.
TableRules == {
    \* start position
    R(0, "e2e4", "w", 1, TRUE, TRUE),
    R(0, "g1f3", "w", 2, TRUE, FALSE),
    R(0, "f2f3", "w", 3, TRUE, TRUE),
    R(0, "e1e2", "w", 20, FALSE, TRUE),
    \* 1.e4
    R(1, "e7e5", "b", 4, TRUE, TRUE),
    R(1, "g7g5", "b", 5, TRUE, TRUE),
    R(1, "e7e4", "b", 22, FALSE, TRUE),
    \* 1.Nf3
    R(2, "g8f6", "b", 6, TRUE, FALSE),
    R(2, "e7e5", "b", 7, TRUE, TRUE),
    \* 1.f3 e5 2.g4 Qh4#
    R(3, "e7e5", "b", 8, TRUE, TRUE),
    R(8, "g2g4", "w", 9, TRUE, TRUE),
    R(9, "d8h4", "b", 10, TRUE, FALSE),
    R(10, "e1f2", "w", 25, FALSE, FALSE),
    \* 1.e4 e5 2.Nf3
    R(4, "g1f3", "w", 11, TRUE, FALSE),
    R(11, "b8c6", "b", 17, TRUE, FALSE),
    \* 1.e4 g5 2.d4 f6 3.Qh5#
    R(5, "d2d4", "w", 12, TRUE, TRUE),
    \* 1.e4 g5 2.Nf3 Nc6
    R(5, "g1f3", "w", 26, TRUE, FALSE),
    R(26, "b8c6", "b", 27, TRUE, FALSE),
    R(12, "f7f6", "b", 13, TRUE, TRUE),
    R(13, "d1h5", "w", 14, TRUE, FALSE),
    \* 1.Nf3 Nf6 2.Ng1 Ng8 is the start placement again
    R(6, "f3g1", "w", 15, TRUE, FALSE),
    R(15, "f6g8", "b", 0, TRUE, FALSE),
    \* 1.Nf3 e5 2.e4 reaches the placement of 1.e4 e5 2.Nf3
    R(7, "e2e4", "w", 11, TRUE, TRUE),
    \* placement 18 stands for a position without legal moves and no check
    R(7, "f3e5", "w", 18, TRUE, TRUE),
    \* placements reached through a move that is not legal
    R(20, "e7e5", "b", 21, TRUE, TRUE),
    R(21, "g1f3", "w", 24, TRUE, FALSE),
    R(22, "g1f3", "w", 23, TRUE, FALSE)
}

\* placements in which the side to move is in check
InCheck == {10, 14}

\* placements in which the side to move has no legal move (10, 14: mate)
NoMoves == {10, 14, 18}

\* placement 99 stands for every position outside the table
Placements == {r.from : r \in TableRules} \cup {r.to : r \in TableRules} \cup {99}

\* every other placement has a quiet legal move for the side to move
Rules ==
    TableRules
    \cup {R(p, "h2h3", "w", 99, TRUE, TRUE) : p \in Placements \ NoMoves}
    \cup {R(p, "h7h6", "b", 99, TRUE, TRUE) : p \in Placements \ NoMoves}

\* board.san(move) without the check suffix
SanBase(m) ==
    CASE m = "e2e4" -> "e4"   [] m = "g1f3" -> "Nf3" [] m = "f2f3" -> "f3"
      [] m = "e1e2" -> "Ke2"  [] m = "e7e5" -> "e5"  [] m = "g7g5" -> "g5"
      [] m = "e7e4" -> "e4"   [] m = "g8f6" -> "Nf6" [] m = "g2g4" -> "g4"
      [] m = "d8h4" -> "Qh4"  [] m = "e1f2" -> "Kf2" [] m = "d2d4" -> "d4"
      [] m = "f7f6" -> "f6"   [] m = "d1h5" -> "Qh5" [] m = "f3g1" -> "Ng1"
      [] m = "f6g8" -> "Ng8"  [] m = "b8c6" -> "Nc6" [] m = "f3e5" -> "Nxe5"
      [] m = "h2h3" -> "h3"   [] m = "h7h6" -> "h6"
      [] OTHER -> m

\* the rows of each placement
RowsAt == [p \in Placements |-> {r \in Rules : r.from = p}]

(***************************************************************************)
(* chess.Board: a position and the stack Board.push / Board.pop keep.      *)
(***************************************************************************)
Other(side) == IF side = "w" THEN "b" ELSE "w"

\* chess.Board()
StartPos == [pl |-> 0, turn |-> "w", half |-> 0, full |-> 1]

NewBoard == <<StartPos>>

Top(b) == b[Len(b)]

HasRow(pos, m) == \E r \in RowsAt[pos.pl] : r.move = m

Row(pos, m) == CHOOSE r \in RowsAt[pos.pl] : r.move = m

\* move in board.legal_moves
IsLegal(pos, m) ==
    /\ HasRow(pos, m)
    /\ Row(pos, m).legal
    /\ Row(pos, m).side = pos.turn

LegalMoves(pos) ==
    {r.move : r \in {q \in RowsAt[pos.pl] : q.legal /\ q.side = pos.turn}}

\* the position after Board.push(move), for a move with a piece to move
PushPos(pos, m) ==
    [pl   |-> Row(pos, m).to,
     turn |-> Other(pos.turn),
     half |-> IF Row(pos, m).zero THEN 0 ELSE pos.half + 1,
     full |-> IF pos.turn = "b" THEN pos.full + 1 ELSE pos.full]

\* Board.push(move) on the board's stack
Push(b, m) == Append(b, PushPos(Top(b), m))

\* Board.pop()
Pop(b) == SubSeq(b, 1, Len(b) - 1)

\* What Board.push leaves behind when it raises AssertionError (no piece on
\* the from-square).  The library either raises before it touched the board,
\* or after it saved the state on its stack and advanced the move counters.
PushFailed(b, m, atomic) ==
    IF atomic = "yes" THEN b
    ELSE Append(b, [Top(b) EXCEPT !.half = @ + 1,
                                  !.full = IF Top(b).turn = "b" THEN @ + 1 ELSE @])

\* a slip: a key whose fullmove number stays at 1
Fen_no_fullmove(pos) == <<pos.pl, pos.turn, pos.half, 1>>

\* a slip: a key without the move counters
Fen_no_counters(pos) == <<pos.pl, pos.turn, 0, 1>>

\* board.fen(): placement, side to move, halfmove clock, fullmove number
Fen(pos) == <<pos.pl, pos.turn, pos.half, pos.full>>

\* board.is_checkmate()
IsCheckmate(pos) == pos.pl \in InCheck /\ LegalMoves(pos) = {}

\* board.san(move): the notation carries the check or mate suffix
San(pos, m) ==
    <<SanBase(m),
      IF IsCheckmate(PushPos(pos, m)) THEN "#"
      ELSE IF PushPos(pos, m).pl \in InCheck THEN "+" ELSE "">>

(***************************************************************************)
(* RepertoireTree: tree maps a FEN to the moves recorded there; the inner  *)
(* dict keeps its moves in insertion order, each with its child FEN.       *)
(***************************************************************************)
\* RepertoireTree()
EmptyTree == <<>>

\* move_uci in self.tree[key_fen]
HasMove(cands, m) == \E i \in 1..Len(cands) : cands[i].move = m

\* a slip: the call that creates a position's entry returns after creating
\* it, so that the first move offered for a position is lost
insert_entry_only(tree, key_fen, move_uci, child_fen) ==
    IF key_fen \notin DOMAIN tree
    THEN tree @@ (key_fen :> <<>>)
    ELSE IF ~HasMove(tree[key_fen], move_uci)
         THEN [tree EXCEPT ![key_fen] =
                  Append(@, [move |-> move_uci, child |-> child_fen])]
         ELSE tree

\* a slip: the new candidate put in front of the list instead of after it
insert_prepend(tree, key_fen, move_uci, child_fen) ==
    LET t1 == IF key_fen \notin DOMAIN tree
              THEN tree @@ (key_fen :> <<>>)
              ELSE tree
    IN  IF ~HasMove(t1[key_fen], move_uci)
        THEN [t1 EXCEPT ![key_fen] =
                 <<[move |-> move_uci, child |-> child_fen]>> \o @]
        ELSE t1

\* a slip: a recorded move is deleted and entered again, so that it moves
\* to the end of the candidates with the child key of the latest call
insert_reappend(tree, key_fen, move_uci, child_fen) ==
    LET t1 == IF key_fen \notin DOMAIN tree
              THEN tree @@ (key_fen :> <<>>)
              ELSE tree
    IN  [t1 EXCEPT ![key_fen] =
            Append(SelectSeq(@, LAMBDA e : e.move # move_uci),
                   [move |-> move_uci, child |-> child_fen])]

\* a slip: the membership test on the move left out, so that the
\* assignment replaces the child recorded first
insert_overwrite(tree, key_fen, move_uci, child_fen) ==
    LET t1 == IF key_fen \notin DOMAIN tree
              THEN tree @@ (key_fen :> <<>>)
              ELSE tree
    IN  IF ~HasMove(t1[key_fen], move_uci)
        THEN [t1 EXCEPT ![key_fen] =
                 Append(@, [move |-> move_uci, child |-> child_fen])]
        ELSE [t1 EXCEPT ![key_fen] =
                 [i \in 1..Len(@) |->
                     IF @[i].move = move_uci
                     THEN [move |-> move_uci, child |-> child_fen]
                     ELSE @[i]]]

\* RepertoireTree.insert
insert(tree, key_fen, move_uci, child_fen) ==
    LET t1 == IF key_fen \notin DOMAIN tree
              THEN tree @@ (key_fen :> <<>>)
              ELSE tree
    IN  IF ~HasMove(t1[key_fen], move_uci)
        THEN [t1 EXCEPT ![key_fen] =
                 Append(@, [move |-> move_uci, child |-> child_fen])]
        ELSE t1

(***************************************************************************)
(* Game trees as chess.pgn hands them over.  A game is a sequence of nodes;*)
(* node i has a parent (0 is the game's root) and a move, and the          *)
(* variations of a node are its children in increasing index: the first is *)
(* the main line.                                                          *)
(***************************************************************************)
N(p, m) == [parent |-> p, move |-> m]

\* a slip: the variations taken last to first
Variations_reversed(g, n) ==
    LET vs == SelectSeq([i \in 1..Len(g) |-> i], LAMBDA i : g[i].parent = n)
    IN  [i \in 1..Len(vs) |-> vs[Len(vs) + 1 - i]]

\* node.variations
Variations(g, n) ==
    SelectSeq([i \in 1..Len(g) |-> i], LAMBDA i : g[i].parent = n)

\* the state one traversal threads through its loop: the shared board, the
\* trie, and whether an exception is propagating
Frame(b, t, r) == [board |-> b, tree |-> t, raised |-> r]

RECURSIVE WhiteLoop_every_ply(_, _, _, _)
\* a slip: the test of the side to move left out, so that Black's plies are
\* recorded as well
WhiteLoop_every_ply(g, todo, fr, atomic) ==
    IF todo = <<>> \/ fr.raised THEN fr
    ELSE
      LET v    == Head(todo)
          move == g[v].move
          cur  == Top(fr.board)
          mine == cur.turn = "w"
      IN  IF mine /\ ~HasRow(cur, move)
          THEN \* new_board.push raised on the copy: continue
               WhiteLoop_every_ply(g, Tail(todo), fr, atomic)
          ELSE
            LET t1 == IF HasRow(cur, move)
                      THEN insert(fr.tree, Fen(cur), move, Fen(PushPos(cur, move)))
                      ELSE fr.tree
            IN  IF ~HasRow(cur, move)
                THEN \* board.push raises and nothing catches it
                     Frame(PushFailed(fr.board, move, atomic), t1, TRUE)
                ELSE
                  LET sub == WhiteLoop_every_ply(g, Variations(g, v),
                                       Frame(Push(fr.board, move), t1, FALSE),
                                       atomic)
                  IN  IF sub.raised THEN sub
                      ELSE WhiteLoop_every_ply(g, Tail(todo),
                                     Frame(Pop(sub.board), sub.tree, FALSE),
                                     atomic)

RECURSIVE WhiteLoop_child_of_board(_, _, _, _)
\* a slip: the child key taken from the shared board instead of the copy
\* on which the move was made
WhiteLoop_child_of_board(g, todo, fr, atomic) ==
    IF todo = <<>> \/ fr.raised THEN fr
    ELSE
      LET v    == Head(todo)
          move == g[v].move
          cur  == Top(fr.board)
          mine == cur.turn = "w"
      IN  IF mine /\ ~HasRow(cur, move)
          THEN \* new_board.push raised on the copy: continue
               WhiteLoop_child_of_board(g, Tail(todo), fr, atomic)
          ELSE
            LET t1 == IF mine
                      THEN insert(fr.tree, Fen(cur), move, Fen(cur))
                      ELSE fr.tree
            IN  IF ~HasRow(cur, move)
                THEN \* board.push raises and nothing catches it
                     Frame(PushFailed(fr.board, move, atomic), t1, TRUE)
                ELSE
                  LET sub == WhiteLoop_child_of_board(g, Variations(g, v),
                                       Frame(Push(fr.board, move), t1, FALSE),
                                       atomic)
                  IN  IF sub.raised THEN sub
                      ELSE WhiteLoop_child_of_board(g, Tail(todo),
                                     Frame(Pop(sub.board), sub.tree, FALSE),
                                     atomic)

RECURSIVE WhiteLoop(_, _, _, _)
\* the for loop of process_white_node over the variations still to visit
WhiteLoop(g, todo, fr, atomic) ==
    IF todo = <<>> \/ fr.raised THEN fr
    ELSE
      LET v    == Head(todo)
          move == g[v].move
          cur  == Top(fr.board)
          mine == cur.turn = "w"
      IN  IF mine /\ ~HasRow(cur, move)
          THEN \* new_board.push raised on the copy: continue
               WhiteLoop(g, Tail(todo), fr, atomic)
          ELSE
            LET t1 == IF mine
                      THEN insert(fr.tree, Fen(cur), move, Fen(PushPos(cur, move)))
                      ELSE fr.tree
            IN  IF ~HasRow(cur, move)
                THEN \* board.push raises and nothing catches it
                     Frame(PushFailed(fr.board, move, atomic), t1, TRUE)
                ELSE
                  LET sub == WhiteLoop(g, Variations(g, v),
                                       Frame(Push(fr.board, move), t1, FALSE),
                                       atomic)
                  IN  IF sub.raised THEN sub
                      ELSE WhiteLoop(g, Tail(todo),
                                     Frame(Pop(sub.board), sub.tree, FALSE),
                                     atomic)

process_white_node(g, node, b, tree, atomic) ==
    WhiteLoop(g, Variations(g, node), Frame(b, tree, FALSE), atomic)

RECURSIVE BlackLoop(_, _, _, _)
\* the for loop of process_black_node over the variations still to visit
BlackLoop(g, todo, fr, atomic) ==
    IF todo = <<>> THEN fr
    ELSE
      LET v    == Head(todo)
          move == g[v].move
          cur  == Top(fr.board)
          mine == cur.turn = "b"
      IN  IF mine /\ ~IsLegal(cur, move)
          THEN \* skipping illegal black move: continue
               BlackLoop(g, Tail(todo), fr, atomic)
          ELSE
            LET t1 == IF mine
                      THEN insert(fr.tree, Fen(cur), move, Fen(PushPos(cur, move)))
                      ELSE fr.tree
            IN  IF ~HasRow(cur, move)
                THEN \* board.push raised AssertionError: continue, no pop
                     BlackLoop(g, Tail(todo),
                               Frame(PushFailed(fr.board, move, atomic), t1, FALSE),
                               atomic)
                ELSE
                  LET sub == BlackLoop(g, Variations(g, v),
                                       Frame(Push(fr.board, move), t1, FALSE),
                                       atomic)
                  IN  BlackLoop(g, Tail(todo),
                                Frame(Pop(sub.board), sub.tree, FALSE),
                                atomic)

process_black_node(g, node, b, tree, atomic) ==
    BlackLoop(g, Variations(g, node), Frame(b, tree, FALSE), atomic)

(***************************************************************************)
(* The repertoire files: the games chess.pgn.read_game may return.         *)
(***************************************************************************)
WhiteGames == {
    \* 1.f3 e5 2.g4 Qh4#, then a king move recorded in the mated position
    <<N(0, "f2f3"), N(1, "e7e5"), N(2, "g2g4"), N(3, "d8h4"), N(4, "e1f2")>>,
    \* 1.e4 g5 2.d4 f6 3.Qh5#
    <<N(0, "e2e4"), N(1, "g7g5"), N(2, "d2d4"), N(3, "f7f6"), N(4, "d1h5")>>,
    \* an illegal first move with a line below it, and 1.e4 as a variation
    <<N(0, "e1e2"), N(0, "e2e4"), N(1, "e7e5"), N(3, "g1f3")>>,
    \* 1.e4 (main line, 1...e5 2.Nf3) and 1.Nf3 as a variation
    <<N(0, "e2e4"), N(0, "g1f3"), N(1, "e7e5"), N(3, "g1f3")>>,
    \* 1.Nf3 Nf6 2.Ng1 Ng8 3.Nf3: back on the start placement
    <<N(0, "g1f3"), N(1, "g8f6"), N(2, "f3g1"), N(3, "f6g8"), N(4, "g1f3")>>,
    \* 1.Nf3 e5 with 2.Nxe5 (no legal reply, no check) and 2.e4
    <<N(0, "g1f3"), N(1, "e7e5"), N(2, "f3e5"), N(2, "e2e4")>>,
    \* moves from an empty square: as White's first move, and as a reply to
    \* 1.e4 that comes before the variation 1...e5 2.Nf3
    <<N(0, "e4e5"), N(0, "e2e4"), N(2, "d8h4"), N(2, "e7e5"), N(4, "g1f3")>>
}

BlackGames == {
    \* 1.f3 e5 2.g4 Qh4#
    <<N(0, "f2f3"), N(1, "e7e5"), N(2, "g2g4"), N(3, "d8h4")>>,
    \* 1.e4 g5 2.d4 f6
    <<N(0, "e2e4"), N(1, "g7g5"), N(2, "d2d4"), N(3, "f7f6")>>,
    \* 1.e4 e5 (main line, 2.Nf3 Nc6) and 1...g5 as a variation
    <<N(0, "e2e4"), N(1, "e7e5"), N(1, "g7g5"), N(2, "g1f3"), N(4, "b8c6")>>,
    \* 1.Nf3 Nf6 2.Ng1 Ng8 3.Nf3 Nf6
    <<N(0, "g1f3"), N(1, "g8f6"), N(2, "f3g1"), N(3, "f6g8"), N(4, "g1f3"),
      N(5, "g8f6")>>,
    \* 1.Nf3 e5 2.e4 Nc6
    <<N(0, "g1f3"), N(1, "e7e5"), N(2, "e2e4"), N(3, "b8c6")>>,
    \* an illegal reply beside 1.e4 e5, a white move from an empty square,
    \* and 1.Nf3 Nf6 after it
    <<N(0, "e2e4"), N(1, "e7e4"), N(1, "e7e5"), N(0, "e4e5"), N(4, "e7e5"),
      N(0, "g1f3"), N(6, "g8f6")>>,
    \* an illegal first move of White with a reply below it
    <<N(0, "e1e2"), N(1, "e7e5")>>
}

(***************************************************************************)
(* simulate_game: one iteration of its while loop.                         *)
(***************************************************************************)
\* a slip in the index: the candidate inserted last
Candidate_last(cands) == cands[Len(cands)].move

\* list(tree[current_fen].keys())[0]
Candidate(cands) == cands[1].move

\* current_fen in tree.tree and tree.tree[current_fen]
InBook(tree, fen) == fen \in DOMAIN tree /\ tree[fen] # <<>>

\* The outcome of one iteration: the board and the SAN list after it, and
\* the reason of the break ("" while the loop goes on).
Ply(b, san, s) == [board |-> b, san |-> san, stop |-> s]

\* a slip: out of book, the side still plays a quiet move
SidePly_fallback(tree, b, san, side) ==
    LET cur == Top(b)
        fen == Fen(cur)
        quiet == IF side = "w" THEN "h2h3" ELSE "h7h6"
    IN  IF InBook(tree, fen)
        THEN LET candidate == Candidate(tree[fen])
             IN  IF ~IsLegal(cur, candidate)
                 THEN Ply(b, san, <<"illegal", side>>)
                 ELSE Ply(Push(b, candidate),
                          Append(san, San(cur, candidate)), <<>>)
        ELSE IF IsLegal(cur, quiet)
             THEN Ply(Push(b, quiet), Append(san, San(cur, quiet)),
                      <<"out_of_book", side>>)
             ELSE Ply(b, san, <<"out_of_book", side>>)

\* a slip: the candidate is pushed without the legality check
SidePly_unchecked(tree, b, san, side) ==
    LET cur == Top(b)
        fen == Fen(cur)
    IN  IF InBook(tree, fen)
        THEN LET candidate == Candidate(tree[fen])
             IN  IF ~HasRow(cur, candidate)
                 THEN Ply(b, san, <<"illegal", side>>)
                 ELSE Ply(Push(b, candidate),
                          Append(san, San(cur, candidate)), <<>>)
        ELSE Ply(b, san, <<"out_of_book", side>>)

\* a slip: the recorded child key is trusted, the walk goes on from the
\* position it names and the candidate is not tested on the live board
SidePly_trusts_child(tree, b, san, side) ==
    LET cur == Top(b)
        fen == Fen(cur)
    IN  IF InBook(tree, fen)
        THEN LET child == tree[fen][1].child
             IN  Ply(Append(b, [pl |-> child[1], turn |-> child[2],
                                half |-> child[3], full |-> child[4]]),
                     Append(san, <<SanBase(Candidate(tree[fen])), "">>), <<>>)
        ELSE Ply(b, san, <<"out_of_book", side>>)

\* a slip: the candidate is pushed before the legality check ends the walk
SidePly_push_first(tree, b, san, side) ==
    LET cur == Top(b)
        fen == Fen(cur)
    IN  IF InBook(tree, fen)
        THEN LET candidate == Candidate(tree[fen])
             IN  IF ~IsLegal(cur, candidate)
                 THEN Ply(IF HasRow(cur, candidate) THEN Push(b, candidate) ELSE b,
                          san, <<"illegal", side>>)
                 ELSE Ply(Push(b, candidate),
                          Append(san, San(cur, candidate)), <<>>)
        ELSE Ply(b, san, <<"out_of_book", side>>)

\* a slip: the notation is appended before the legality check
SidePly_san_first(tree, b, san, side) ==
    LET cur == Top(b)
        fen == Fen(cur)
    IN  IF InBook(tree, fen)
        THEN LET candidate == Candidate(tree[fen])
             IN  IF ~IsLegal(cur, candidate)
                 THEN Ply(b, Append(san, <<SanBase(candidate), "">>),
                          <<"illegal", side>>)
                 ELSE Ply(Push(b, candidate),
                          Append(san, San(cur, candidate)), <<>>)
        ELSE Ply(b, san, <<"out_of_book", side>>)

SidePly(tree, b, san, side) ==
    LET cur == Top(b)
        fen == Fen(cur)
    IN  IF InBook(tree, fen)
        THEN LET candidate == Candidate(tree[fen])
             IN  IF ~IsLegal(cur, candidate)
                 THEN Ply(b, san, <<"illegal", side>>)
                 ELSE Ply(Push(b, candidate),
                          Append(san, San(cur, candidate)), <<>>)
        ELSE Ply(b, san, <<"out_of_book", side>>)

\* a slip: the two tries taken for each other
simulate_game_swapped(wt, bt, b, san) ==
    IF Top(b).turn = "w"
    THEN SidePly(bt, b, san, "b")
    ELSE SidePly(wt, b, san, "w")

\* a slip: a candidate whose child position the opponent's trie answers is
\* preferred to the first candidate
simulate_game_lookahead(wt, bt, b, san) ==
    LET side == Top(b).turn
        own  == IF side = "w" THEN wt ELSE bt
        opp  == IF side = "w" THEN bt ELSE wt
        fen  == Fen(Top(b))
        answered == IF InBook(own, fen)
                    THEN {i \in 1..Len(own[fen]) : own[fen][i].child \in DOMAIN opp}
                    ELSE {}
    IN  IF answered = {}
        THEN SidePly(own, b, san, side)
        ELSE SidePly([own EXCEPT ![fen] =
                         <<@[CHOOSE i \in answered : \A j \in answered : i <= j]>>],
                     b, san, side)

simulate_game(wt, bt, b, san) ==
    IF Top(b).turn = "w"
    THEN SidePly(wt, b, san, "w")
    ELSE SidePly(bt, b, san, "b")

(***************************************************************************)
(* main: phase 3.                                                          *)
(***************************************************************************)
Record(w, d, bl, t) == [white |-> w, draws |-> d, black |-> bl, total |-> t]

NoResult == Record(-1, -1, -1, -1)

\* a slip: the colours of the mate branch swapped
MateRecord_swapped(pos) ==
    IF pos.turn = "w" THEN Record(1, 0, 0, 1) ELSE Record(0, 0, 1, 1)

\* the mate branch of main
MateRecord(pos) ==
    IF pos.turn = "w" THEN Record(0, 0, 1, 1) ELSE Record(1, 0, 0, 1)

\* what the explorer may answer: white, draws, black
Answers == {<<3, 1, 2>>}

\* query_lichess
query_lichess(data) ==
    Record(data[1], data[2], data[3], data[1] + data[2] + data[3])

(***************************************************************************)
(* The program.  push_atomic is the library's way of raising from          *)
(* Board.push ("yes": before it touched the board, "no": after); it is one *)
(* way for the whole run and "unseen" until a traversal depends on it.     *)
(***************************************************************************)
OtherWay(a) == IF a = "yes" THEN "no" ELSE "yes"

\* a is the way the run has shown or, when it matters for the first time,
\* either way
Observed(seen, a, matters) ==
    IF seen = "unseen" THEN (matters \/ a = "yes") ELSE a = seen

Init ==
    /\ pc = "build_white"
    /\ push_atomic = "unseen"
    /\ game_count = 0
    /\ white_tree = EmptyTree
    /\ black_tree = EmptyTree
    /\ board = NewBoard
    /\ san_sequence = <<>>
    /\ stop = <<>>
    /\ result = NoResult
    /\ lookups = <<>>
    /\ last_insert = <<>>
    /\ last_game = <<>>
    /\ no_games = {}
    /\ white_moves = <<>>
    /\ black_games = <<>>
    /\ white_index = 0
    /\ black_index = 0
    /\ played_white_moves = <<>>
    /\ move_stack = <<>>

\* build_white_tree: read_game returned a game
WhiteGame ==
    /\ pc = "build_white"
    /\ game_count < MaxGames
    /\ \E g \in WhiteGames, a \in {"yes", "no"} :
          LET fr  == process_white_node(g, 0, NewBoard, white_tree, a)
              alt == process_white_node(g, 0, NewBoard, white_tree, OtherWay(a))
          IN  /\ Observed(push_atomic, a, fr # alt)
              /\ push_atomic' = IF fr # alt THEN a ELSE push_atomic
              /\ white_tree' = fr.tree
              /\ board' = fr.board
              /\ pc' = IF fr.raised THEN "crashed" ELSE "build_white"
              /\ last_game' = g
    /\ game_count' = game_count + 1
    /\ UNCHANGED <<black_tree, san_sequence, stop, result, lookups,
                   last_insert, no_games,
                   line_vars>>

\* build_white_tree: read_game returned None
WhiteDone ==
    /\ pc = "build_white"
    /\ pc' = "build_black"
    /\ no_games' = IF game_count = 0 THEN no_games \cup {"w"} ELSE no_games
    /\ game_count' = 0
    /\ board' = NewBoard
    /\ last_game' = <<>>
    /\ UNCHANGED <<push_atomic, white_tree, black_tree, san_sequence, stop,
                   result, lookups, last_insert,
                   line_vars>>

\* a slip: one trie for both builds instead of a fresh RepertoireTree each
BlackGame_shared_trie ==
    /\ pc = "build_black"
    /\ game_count < MaxGames
    /\ \E g \in BlackGames, a \in {"yes", "no"} :
          LET t0  == IF game_count = 0 THEN white_tree ELSE black_tree
              fr  == process_black_node(g, 0, NewBoard, t0, a)
              alt == process_black_node(g, 0, NewBoard, t0, OtherWay(a))
          IN  /\ Observed(push_atomic, a, fr # alt)
              /\ push_atomic' = IF fr # alt THEN a ELSE push_atomic
              /\ black_tree' = fr.tree
              /\ board' = fr.board
              /\ last_game' = g
    /\ game_count' = game_count + 1
    /\ UNCHANGED <<pc, white_tree, san_sequence, stop, result, lookups,
                   last_insert, no_games,
                   line_vars>>

\* build_black_tree: read_game returned a game
BlackGame ==
    /\ pc = "build_black"
    /\ game_count < MaxGames
    /\ \E g \in BlackGames, a \in {"yes", "no"} :
          LET fr  == process_black_node(g, 0, NewBoard, black_tree, a)
              alt == process_black_node(g, 0, NewBoard, black_tree, OtherWay(a))
          IN  /\ Observed(push_atomic, a, fr # alt)
              /\ push_atomic' = IF fr # alt THEN a ELSE push_atomic
              /\ black_tree' = fr.tree
              /\ board' = fr.board
              /\ last_game' = g
    /\ game_count' = game_count + 1
    /\ UNCHANGED <<pc, white_tree, san_sequence, stop, result, lookups,
                   last_insert, no_games,
                   line_vars>>

\* build_black_tree: read_game returned None; simulate_game starts
BlackDone ==
    /\ pc = "build_black"
    /\ pc' = "simulate"
    /\ no_games' = IF game_count = 0 THEN no_games \cup {"b"} ELSE no_games
    /\ game_count' = 0
    /\ board' = NewBoard
    /\ last_game' = <<>>
    /\ san_sequence' = <<>>
    /\ UNCHANGED <<push_atomic, white_tree, black_tree, stop, result, lookups,
                   last_insert,
                   line_vars>>

\* a slip: the entry is fetched the way a defaultdict hands it out, so that
\* a position that is not in the book gets an empty entry
SimStep_defaultdict ==
    /\ pc = "simulate"
    /\ Len(san_sequence) < MaxPly
    /\ LET p   == simulate_game(white_tree, black_tree, board, san_sequence)
           fen == Fen(Top(board))
           touch(tree) == IF fen \in DOMAIN tree THEN tree
                          ELSE tree @@ (fen :> <<>>)
       IN  /\ board' = p.board
           /\ san_sequence' = p.san
           /\ stop' = p.stop
           /\ pc' = IF p.stop = <<>> THEN "simulate" ELSE "report"
           /\ white_tree' = IF Top(board).turn = "w" THEN touch(white_tree)
                             ELSE white_tree
           /\ black_tree' = IF Top(board).turn = "b" THEN touch(black_tree)
                             ELSE black_tree
    /\ UNCHANGED <<push_atomic, game_count, result,
                   lookups, last_insert,
                   last_game, no_games,
                   line_vars>>

\* simulate_game: one iteration of the loop
SimStep ==
    /\ pc = "simulate"
    /\ Len(san_sequence) < MaxPly
    /\ LET p == simulate_game(white_tree, black_tree, board, san_sequence)
       IN  /\ board' = p.board
           /\ san_sequence' = p.san
           /\ stop' = p.stop
           /\ pc' = IF p.stop = <<>> THEN "simulate" ELSE "report"
    /\ UNCHANGED <<push_atomic, game_count, white_tree, black_tree, result,
                   lookups, last_insert,
                   last_game, no_games,
                   line_vars>>

\* main, phase 3: the final position is checkmate
ReportMate ==
    /\ pc = "report"
    /\ IsCheckmate(Top(board))
    /\ result' = MateRecord(Top(board))
    /\ pc' = "done"
    /\ UNCHANGED <<push_atomic, game_count, white_tree, black_tree, board,
                   san_sequence, stop, lookups, last_insert,
                   last_game, no_games,
                   line_vars>>

\* a slip: the explorer is asked while the walk is still going on
ReportLookup_early ==
    /\ pc \in {"simulate", "report"}
    /\ ~IsCheckmate(Top(board))
    /\ lookups' = Append(lookups, Fen(Top(board)))
    /\ \E data \in Answers : result' = query_lichess(data)
    /\ pc' = "done"
    /\ UNCHANGED <<push_atomic, game_count, white_tree, black_tree, board,
                   san_sequence, stop, last_insert,
                   last_game, no_games,
                   line_vars>>

\* a slip: the explorer is asked whatever the final position is
ReportLookup_always ==
    /\ pc = "report"
    /\ lookups' = Append(lookups, Fen(Top(board)))
    /\ \E data \in Answers : result' = query_lichess(data)
    /\ pc' = "done"
    /\ UNCHANGED <<push_atomic, game_count, white_tree, black_tree, board,
                   san_sequence, stop, last_insert,
                   last_game, no_games,
                   line_vars>>

\* main, phase 3: the explorer is asked and answers
ReportLookup ==
    /\ pc = "report"
    /\ ~IsCheckmate(Top(board))
    /\ lookups' = Append(lookups, Fen(Top(board)))
    /\ \E data \in Answers : result' = query_lichess(data)
    /\ pc' = "done"
    /\ UNCHANGED <<push_atomic, game_count, white_tree, black_tree, board,
                   san_sequence, stop, last_insert,
                   last_game, no_games,
                   line_vars>>

\* main, phase 3: the request fails and main exits with status 1
ReportFailed ==
    /\ pc = "report"
    /\ ~IsCheckmate(Top(board))
    /\ lookups' = Append(lookups, Fen(Top(board)))
    /\ pc' = "exit1"
    /\ UNCHANGED <<push_atomic, game_count, white_tree, black_tree, board,
                   san_sequence, stop, result, last_insert,
                   last_game, no_games,
                   line_vars>>

Next ==
    \/ WhiteGame
    \/ WhiteDone
    \/ BlackGame
    \/ BlackDone
    \/ SimStep
    \/ ReportMate
    \/ ReportLookup
    \/ ReportFailed

Spec == Init /\ [][Next]_vars

(***************************************************************************)
(* RepertoireTree.insert on its own: any caller, any sequence of calls.    *)
(***************************************************************************)
InsertKeys == {Fen(StartPos), Fen(PushPos(StartPos, "e2e4"))}

InsertMoves == {"e2e4", "g1f3", "e7e5"}

InsertChildren == {Fen(PushPos(StartPos, "e2e4")), Fen(PushPos(StartPos, "g1f3"))}

InitInsert ==
    /\ pc = "insert"
    /\ push_atomic = "unseen"
    /\ game_count = 0
    /\ white_tree = EmptyTree
    /\ black_tree = EmptyTree
    /\ board = NewBoard
    /\ san_sequence = <<>>
    /\ stop = <<>>
    /\ result = NoResult
    /\ lookups = <<>>
    /\ last_insert = <<>>
    /\ last_game = <<>>
    /\ no_games = {}
    /\ white_moves = <<>>
    /\ black_games = <<>>
    /\ white_index = 0
    /\ black_index = 0
    /\ played_white_moves = <<>>
    /\ move_stack = <<>>

\* tree.insert(key_fen, move_uci, child_fen)
InsertCall ==
    /\ pc = "insert"
    /\ \E k \in InsertKeys, m \in InsertMoves, c \in InsertChildren :
          /\ white_tree' = insert(white_tree, k, m, c)
          /\ last_insert' = <<k, m, c>>
    /\ UNCHANGED <<pc, push_atomic, game_count, black_tree, board,
                   san_sequence, stop, result, lookups,
                   last_game, no_games,
                   line_vars>>

NextInsert == InsertCall

SpecInsert == InitInsert /\ [][NextInsert]_vars

(***************************************************************************)
(* The line-based revisions (opening_arena_working_003.py, the same code   *)
(* in 002): White's repertoire is the main line of the first game of its   *)
(* file, Black's is the list of the main lines of its file, and            *)
(* simulate_opening walks them with two indices.                           *)
(***************************************************************************)
\* chess.Move: from-square and to-square
Mv(f, t) == [from |-> f, to |-> t]

\* Move.uci()
Uci(mv) == mv.from \o mv.to

\* the moves of the games below
LineMoves == {Mv("e2", "e4"), Mv("e7", "e5"), Mv("g7", "g5"), Mv("g1", "f3"),
              Mv("b8", "c6"), Mv("h2", "h3"), Mv("d2", "d4"), Mv("f7", "f6"),
              Mv("d1", "h5"), Mv("g8", "f6")}

\* chess.Move.from_uci
FromUci(u) == CHOOSE mv \in LineMoves : Uci(mv) = u

\* game.mainline_moves() of the games chess.pgn.read_game may return
LineGames == {
    \* 1.e4 e5 2.Nf3 Nc6
    <<Mv("e2", "e4"), Mv("e7", "e5"), Mv("g1", "f3"), Mv("b8", "c6")>>,
    \* 1.e4 e5 2.h3
    <<Mv("e2", "e4"), Mv("e7", "e5"), Mv("h2", "h3")>>,
    \* 1.e4 g5 2.Nf3 Nc6
    <<Mv("e2", "e4"), Mv("g7", "g5"), Mv("g1", "f3"), Mv("b8", "c6")>>,
    \* 1.e4 g5 2.d4 f6 3.Qh5#
    <<Mv("e2", "e4"), Mv("g7", "g5"), Mv("d2", "d4"), Mv("f7", "f6"),
      Mv("d1", "h5")>>,
    \* 1.Nf3 Nf6
    <<Mv("g1", "f3"), Mv("g8", "f6")>>
}

\* the entries of a main line at which the loader's board has the given
\* side to move
PliesOfSide(line, side) ==
    SelectSeq([i \in 1..Len(line) |-> i],
              LAMBDA i : (i % 2 = 1) = (side = "w"))

\* load_white_repertoire: the Move objects of White's plies
load_white_repertoire(line) ==
    LET ix == PliesOfSide(line, "w") IN [i \in 1..Len(ix) |-> line[ix[i]]]

\* load_black_repertoire: one game's white_moves and black_moves, as UCI
GameRecord(line) ==
    LET wx == PliesOfSide(line, "w")
        bx == PliesOfSide(line, "b")
    IN  [white_moves |-> [i \in 1..Len(wx) |-> Uci(line[wx[i]])],
         black_moves |-> [i \in 1..Len(bx) |-> Uci(line[bx[i]])]]

\* game['white_moves'][:len(played_white_moves)] == played_white_moves, for
\* a game with white moves enough
Matches(game, played) ==
    /\ Len(game.white_moves) >= Len(played)
    /\ SubSeq(game.white_moves, 1, Len(played)) = played

\* the for loop over black_games: the index of the first game that
\* matches, 0 when candidate stays None
CandidateIndex(games, played) ==
    IF \E i \in 1..Len(games) : Matches(games[i], played)
    THEN CHOOSE i \in 1..Len(games) :
            /\ Matches(games[i], played)
            /\ \A j \in 1..(i - 1) : ~Matches(games[j], played)
    ELSE 0

InitLines ==
    /\ pc = "load_white"
    /\ push_atomic = "unseen"
    /\ game_count = 0
    /\ white_tree = EmptyTree
    /\ black_tree = EmptyTree
    /\ board = NewBoard
    /\ san_sequence = <<>>
    /\ stop = <<>>
    /\ result = NoResult
    /\ lookups = <<>>
    /\ last_insert = <<>>
    /\ last_game = <<>>
    /\ no_games = {}
    /\ white_moves = <<>>
    /\ black_games = <<>>
    /\ white_index = 0
    /\ black_index = 0
    /\ played_white_moves = <<>>
    /\ move_stack = <<>>

old_vars == <<push_atomic, game_count, white_tree, black_tree, san_sequence,
              stop, result, lookups, last_insert, last_game, no_games>>

\* load_white_repertoire: the first game of White's file
LoadWhite ==
    /\ pc = "load_white"
    /\ \E line \in LineGames : white_moves' = load_white_repertoire(line)
    /\ pc' = "load_black"
    /\ UNCHANGED <<old_vars, board, black_games, white_index, black_index,
                   played_white_moves, move_stack>>

\* load_white_repertoire: no game in White's file, main prints the error
LoadWhiteNone ==
    /\ pc = "load_white"
    /\ pc' = "load_error"
    /\ UNCHANGED <<old_vars, board, line_vars>>

\* load_black_repertoire: read_game returned a game
LoadBlackGame ==
    /\ pc = "load_black"
    /\ Len(black_games) < MaxGames
    /\ \E line \in LineGames : black_games' = Append(black_games, GameRecord(line))
    /\ UNCHANGED <<old_vars, pc, board, white_moves, white_index, black_index,
                   played_white_moves, move_stack>>

\* load_black_repertoire: read_game returned None; simulate_opening starts,
\* or main prints the error when no game was read
LoadBlackDone ==
    /\ pc = "load_black"
    /\ pc' = IF black_games = <<>> THEN "load_error" ELSE "opening"
    /\ UNCHANGED <<old_vars, board, line_vars>>

\* simulate_opening: an iteration with White to move
OpeningWhite ==
    /\ pc = "opening"
    /\ Top(board).turn = "w"
    /\ IF white_index < Len(white_moves)
       THEN LET move == white_moves[white_index + 1]
            IN  /\ white_index' = white_index + 1
                /\ played_white_moves' = Append(played_white_moves, Uci(move))
                /\ IF HasRow(Top(board), Uci(move))
                   THEN /\ board' = Push(board, Uci(move))
                        /\ move_stack' = Append(move_stack, move)
                        /\ pc' = "opening"
                        /\ UNCHANGED push_atomic
                   ELSE \* board.push raises and nothing catches it
                        /\ \E a \in {"yes", "no"} :
                              /\ push_atomic' = a
                              /\ board' = PushFailed(board, Uci(move), a)
                              /\ move_stack' = IF a = "yes" THEN move_stack
                                                ELSE Append(move_stack, move)
                        /\ pc' = "crashed"
       ELSE \* White out-of-book
            /\ pc' = "opening_done"
            /\ UNCHANGED <<push_atomic, board, white_index,
                           played_white_moves, move_stack>>
    /\ UNCHANGED <<game_count, white_tree, black_tree, san_sequence, stop,
                   result, lookups, last_insert, last_game, no_games,
                   white_moves, black_games, black_index>>

\* the reply simulate_opening takes from black_games, "" when the walk
\* breaks before taking one (no candidate, or the candidate has no move at
\* black_index)
BlackReply(games, played, bi) ==
    LET c == CandidateIndex(games, played)
    IN  IF c = 0 THEN ""
        ELSE IF bi < Len(games[c].black_moves)
             THEN games[c].black_moves[bi + 1]
             ELSE ""

\* simulate_opening: an iteration with Black to move
OpeningBlack ==
    /\ pc = "opening"
    /\ Top(board).turn = "b"
    /\ LET move_uci == BlackReply(black_games, played_white_moves, black_index)
       IN  IF move_uci # "" /\ IsLegal(Top(board), Uci(FromUci(move_uci)))
           THEN /\ black_index' = black_index + 1
                /\ board' = Push(board, Uci(FromUci(move_uci)))
                /\ move_stack' = Append(move_stack, FromUci(move_uci))
                /\ pc' = "opening"
           ELSE /\ pc' = "opening_done"
                /\ UNCHANGED <<board, black_index, move_stack>>
    /\ UNCHANGED <<old_vars, white_moves, black_games, white_index,
                   played_white_moves>>

NextLines ==
    \/ LoadWhite
    \/ LoadWhiteNone
    \/ LoadBlackGame
    \/ LoadBlackDone
    \/ OpeningWhite
    \/ OpeningBlack

SpecLines == InitLines /\ [][NextLines]_vars

(***************************************************************************)
(* Helpers of the properties.                                              *)
(***************************************************************************)
Terminated == pc \in {"report", "done", "exit1"}

\* stalemate: the side to move has no legal move and is not in check
IsStalemate(pos) == pos.pl \notin InCheck /\ LegalMoves(pos) = {}

\* the trie of the side to move in the current position
BookToMove == IF Top(board).turn = "w" THEN white_tree ELSE black_tree

\* the candidates recorded for the current position key, <<>> if none
CandidatesHere ==
    IF Fen(Top(board)) \in DOMAIN BookToMove
    THEN BookToMove[Fen(Top(board))]
    ELSE <<>>

LegalHere == {i \in 1..Len(CandidatesHere) :
                 IsLegal(Top(board), CandidatesHere[i].move)}

FirstLegalHere ==
    CandidatesHere[CHOOSE i \in LegalHere : \A j \in LegalHere : i <= j].move

\* board.parse_san: the legal move whose notation is s, "" if there is none
ParseSan(pos, s) ==
    IF \E m \in LegalMoves(pos) : San(pos, m) = s
    THEN CHOOSE m \in LegalMoves(pos) : San(pos, m) = s
    ELSE ""

RECURSIVE Replay(_, _)
\* the position after replaying a history from pos; placement -1 when an
\* entry is not the notation of a legal move
Replay(pos, san) ==
    IF san = <<>> THEN pos
    ELSE IF pos.pl = -1 \/ ParseSan(pos, Head(san)) = ""
         THEN [pos EXCEPT !.pl = -1]
         ELSE Replay(PushPos(pos, ParseSan(pos, Head(san))), Tail(san))

(***************************************************************************)
(* C1.  At every ply the simulator plays the first candidate, in insertion *)
(* order, that is legal in the current position; it stops with an illegal  *)
(* candidate only when no candidate of the position is legal.              *)
(***************************************************************************)
C1_FirstLegalCandidatePlayed ==
    [][(pc = "simulate" /\ CandidatesHere # <<>>) =>
          IF LegalHere # {}
          THEN /\ board' = Push(board, FirstLegalHere)
               /\ pc' = "simulate"
          ELSE /\ board' = board
               /\ stop' = <<"illegal", Top(board).turn>>]_vars

(***************************************************************************)
(* C2.  Whenever the first-inserted candidate of the current position is   *)
(* legal there, the simulator plays exactly that move.                     *)
(***************************************************************************)
C2_FirstInsertedLegalWins ==
    [][(pc = "simulate" /\ CandidatesHere # <<>>
          /\ IsLegal(Top(board), CandidatesHere[1].move)) =>
          /\ board' = Push(board, CandidatesHere[1].move)
          /\ san_sequence' =
                Append(san_sequence, San(Top(board), CandidatesHere[1].move))]_vars

\* White has two candidates at the start, the first legal, and it was played.
C2_Witness ==
    /\ Terminated
    /\ Fen(StartPos) \in DOMAIN white_tree
    /\ Len(white_tree[Fen(StartPos)]) >= 2
    /\ IsLegal(StartPos, white_tree[Fen(StartPos)][2].move)
    /\ Len(board) >= 2
    /\ board[2] = PushPos(StartPos, white_tree[Fen(StartPos)][1].move)

(***************************************************************************)
(* C3.  With no entry (or an empty candidate list) for the current key in  *)
(* the trie of the side to move, the walk stops out of book for that side  *)
(* and leaves position and history alone; with no white entry for the      *)
(* initial position it ends with an empty history at the initial key.      *)
(***************************************************************************)
C3_OutOfBookStops ==
    /\ [][(pc = "simulate" /\ CandidatesHere = <<>>) =>
             /\ board' = board
             /\ san_sequence' = san_sequence
             /\ stop' = <<"out_of_book", Top(board).turn>>
             /\ pc' = "report"]_vars
    /\ []((Terminated /\ (Fen(StartPos) \notin DOMAIN white_tree
                            \/ white_tree[Fen(StartPos)] = <<>>)) =>
             /\ san_sequence = <<>>
             /\ Fen(Top(board)) = Fen(StartPos)
             /\ stop = <<"out_of_book", "w">>)

\* Black ran out of book after one move of White.
C3_Witness ==
    /\ Terminated
    /\ stop = <<"out_of_book", "b">>
    /\ Len(san_sequence) = 1
    /\ Len(board) = 2

(***************************************************************************)
(* C4.  A walk whose last move mates gives 1/0/0 when White made it and    *)
(* 0/0/1 when Black made it, total 1.  Fool's Mate gives 0/0/1.            *)
(***************************************************************************)
FoolsMate == <<<<"f3", "">>, <<"e5", "">>, <<"g4", "">>, <<"Qh4", "#">>>>

C4_MateRecord ==
    /\ (pc = "done" /\ IsCheckmate(Top(board))) =>
          result = IF Len(san_sequence) % 2 = 1
                   THEN Record(1, 0, 0, 1)
                   ELSE Record(0, 0, 1, 1)
    /\ (pc = "done" /\ san_sequence = FoolsMate) => result = Record(0, 0, 1, 1)

C4_Witness ==
    /\ pc = "done"
    /\ san_sequence = FoolsMate
    /\ IsCheckmate(Top(board))

(***************************************************************************)
(* C5.  The statistics lookup is made exactly when the final position is   *)
(* not checkmate: never for a mate, once with the final key otherwise.     *)
(***************************************************************************)
C5_LookupIffNotMate ==
    /\ pc \in {"done", "exit1"} =>
          lookups = IF IsCheckmate(Top(board))
                    THEN <<>>
                    ELSE <<Fen(Top(board))>>
    /\ pc \notin {"done", "exit1"} => lookups = <<>>

\* A walk that ended in a stalemate position was looked up.
C5_Witness ==
    /\ pc = "done"
    /\ Len(board) > 1
    /\ IsStalemate(Top(board))
    /\ lookups = <<Fen(Top(board))>>

(***************************************************************************)
(* C6.  Once an applied move gives checkmate or stalemate, no further move *)
(* is applied or appended, whatever the tries record for that position.    *)
(***************************************************************************)
C6_MateIsTerminal ==
    [][(/\ pc \in {"simulate", "report", "done", "exit1"}
        /\ Len(board) > 1
        /\ (IsCheckmate(Top(board)) \/ IsStalemate(Top(board)))) =>
          (board' = board /\ san_sequence' = san_sequence)]_vars

\* The walk ended in a mate position for which White's trie has a candidate.
C6_Witness ==
    /\ pc = "done"
    /\ IsCheckmate(Top(board))
    /\ Fen(Top(board)) \in DOMAIN white_tree
    /\ white_tree[Fen(Top(board))] # <<>>

(***************************************************************************)
(* C7.  Every walk reaches a terminal state after finitely many plies,     *)
(* also when the recorded moves lead back to an earlier placement: every   *)
(* iteration that does not end the walk adds a ply, and the plies never    *)
(* outnumber the keys of the two tries (nor reach the model's MaxPly).     *)
(***************************************************************************)
C7_WalkTerminates ==
    /\ [][(pc = "simulate" /\ pc' = "simulate") =>
             Len(san_sequence') = Len(san_sequence) + 1]_vars
    /\ [](pc = "simulate" =>
             /\ Len(san_sequence) < MaxPly
             /\ Len(san_sequence) <= Cardinality(DOMAIN white_tree)
                                       + Cardinality(DOMAIN black_tree))

\* A finished walk that came back to the start placement.
C7_Witness ==
    /\ Terminated
    /\ \E i \in 2..Len(board) : board[i].pl = StartPos.pl

(***************************************************************************)
(* C8.  Replaying the returned history from the initial position, one move *)
(* per entry, reproduces the returned final position key.                  *)
(***************************************************************************)
C8_RoundTrip ==
    Terminated =>
       /\ Len(san_sequence) = Len(board) - 1
       /\ Fen(Replay(StartPos, san_sequence)) = Fen(Top(board))

\* A walk of four plies or more that stopped on an illegal candidate.
C8_Witness ==
    /\ Terminated
    /\ Len(san_sequence) >= 4
    /\ stop[1] = "illegal"

(***************************************************************************)
(* C10.  Inserting a (position key, move) pair that is already recorded    *)
(* leaves the trie exactly as it was, at any point of any sequence of      *)
(* inserts, and a move occurs at most once among a position's candidates.  *)
(***************************************************************************)
Recorded(tree, k, m) == k \in DOMAIN tree /\ HasMove(tree[k], m)

C10_InsertIdempotent ==
    /\ \A k \in InsertKeys, m \in InsertMoves, c \in InsertChildren :
          /\ Recorded(white_tree, k, m) => insert(white_tree, k, m, c) = white_tree
          /\ \A c2 \in InsertChildren :
                insert(insert(white_tree, k, m, c), k, m, c2)
                   = insert(white_tree, k, m, c)
    /\ \A k \in DOMAIN white_tree :
          \A i, j \in 1..Len(white_tree[k]) :
             white_tree[k][i].move = white_tree[k][j].move => i = j

\* The last call repeated a recorded pair with another child key, after a
\* different move had been recorded at the same position in between.
C10_Witness ==
    /\ last_insert # <<>>
    /\ Recorded(white_tree, last_insert[1], last_insert[2])
    /\ Len(white_tree[last_insert[1]]) >= 2
    /\ white_tree[last_insert[1]][1].move = last_insert[2]
    /\ white_tree[last_insert[1]][1].child # last_insert[3]


(***************************************************************************)
(* C11.  A call of insert with a move not yet recorded at a position that  *)
(* already has candidates appends the move, with the child key given, after *)
(* all the candidates the position had; those candidates keep their moves, *)
(* child keys and order, every other position's entry stays as it was and  *)
(* no position is added.  Each call acting so, the order of a position's   *)
(* candidates is the order in which they were first inserted.              *)
(***************************************************************************)
C11_InsertAppends ==
    [][ (/\ last_insert' # <<>>
         /\ last_insert'[1] \in DOMAIN white_tree
         /\ white_tree[last_insert'[1]] # <<>>
         /\ ~HasMove(white_tree[last_insert'[1]], last_insert'[2]))
        => /\ DOMAIN white_tree' = DOMAIN white_tree
           /\ white_tree'[last_insert'[1]]
                 = Append(white_tree[last_insert'[1]],
                          [move |-> last_insert'[2], child |-> last_insert'[3]])
           /\ \A k \in DOMAIN white_tree \ {last_insert'[1]} :
                 white_tree'[k] = white_tree[k] ]_vars

\* The last call added a third candidate behind two others, while another
\* position has candidates of its own.
C11_Witness ==
    /\ last_insert # <<>>
    /\ last_insert[1] \in DOMAIN white_tree
    /\ Len(white_tree[last_insert[1]]) = 3
    /\ white_tree[last_insert[1]][3]
          = [move |-> last_insert[2], child |-> last_insert[3]]
    /\ \E k \in DOMAIN white_tree : k # last_insert[1] /\ Len(white_tree[k]) >= 2

(***************************************************************************)
(* C12.  A call of insert for a (position key, move) pair that is recorded *)
(* with a different child key changes nothing: the child recorded first is *)
(* kept, the candidates and their order stay, and the call returns.        *)
(***************************************************************************)
C12_ConflictKeepsFirst ==
    [][ (/\ last_insert' # <<>>
         /\ Recorded(white_tree, last_insert'[1], last_insert'[2])
         /\ \E i \in 1..Len(white_tree[last_insert'[1]]) :
               /\ white_tree[last_insert'[1]][i].move = last_insert'[2]
               /\ white_tree[last_insert'[1]][i].child # last_insert'[3])
        => /\ white_tree' = white_tree
           /\ pc' = "insert" ]_vars

\* The last call named a pair recorded as the second candidate of its
\* position, with a child key other than the recorded one.
C12_Witness ==
    /\ last_insert # <<>>
    /\ Recorded(white_tree, last_insert[1], last_insert[2])
    /\ Len(white_tree[last_insert[1]]) >= 2
    /\ white_tree[last_insert[1]][2].move = last_insert[2]
    /\ white_tree[last_insert[1]][2].child # last_insert[3]


(***************************************************************************)
(* Game trees seen from outside the traversal: where a node's move is      *)
(* recorded, and what lies on the way to it.                               *)
(***************************************************************************)
RECURSIVE NodePos(_, _)
\* the position in which node n's move is recorded: the start position with
\* the moves of n's ancestors made in turn
NodePos(g, n) ==
    IF g[n].parent = 0 THEN StartPos
    ELSE PushPos(NodePos(g, g[n].parent), g[g[n].parent].move)

RECURSIVE Reached(_, _)
\* every ancestor of n moves a piece that is there, so NodePos(g, n) exists
Reached(g, n) ==
    \/ g[n].parent = 0
    \/ /\ Reached(g, g[n].parent)
       /\ HasRow(NodePos(g, g[n].parent), g[g[n].parent].move)

RECURSIVE LegalPath(_, _)
\* n is reached through legal moves and its own move is legal
LegalPath(g, n) ==
    /\ g[n].parent = 0 \/ LegalPath(g, g[n].parent)
    /\ IsLegal(NodePos(g, n), g[n].move)

RECURSIVE IllegalAbove(_, _)
\* some ancestor of n is a move that is not legal where it is recorded
IllegalAbove(g, n) ==
    /\ g[n].parent # 0
    /\ \/ IllegalAbove(g, g[n].parent)
       \/ ~IsLegal(NodePos(g, g[n].parent), g[g[n].parent].move)

\* the build in progress: the side it indexes and the trie it fills
BuildRuns == pc \in {"build_white", "build_black", "crashed"} /\ last_game # <<>>
BuildSide == IF pc = "build_black" THEN "b" ELSE "w"
BuildTree == IF pc = "build_black" THEN black_tree ELSE white_tree

Kids(g, p) == {i \in 1..Len(g) : g[i].parent = p}

Edge(g, n) ==
    [move |-> g[n].move, child |-> Fen(PushPos(NodePos(g, n), g[n].move))]

C14_VariationCapture ==
    /\ [](  (/\ BuildRuns
             /\ game_count = 1
             /\ \A n \in 1..Len(last_game) : LegalPath(last_game, n))
          => \A i, j \in 1..Len(last_game) :
                (/\ i < j
                 /\ Kids(last_game, last_game[i].parent) = {i, j}
                 /\ last_game[i].move # last_game[j].move
                 /\ NodePos(last_game, i).turn = BuildSide)
                => /\ Fen(NodePos(last_game, i)) \in DOMAIN BuildTree
                   /\ BuildTree[Fen(NodePos(last_game, i))]
                         = <<Edge(last_game, i), Edge(last_game, j)>> )
    /\ [][ (/\ pc = "simulate"
            /\ Len(CandidatesHere) >= 2
            /\ IsLegal(Top(board), CandidatesHere[1].move)
            /\ IsLegal(Top(board), CandidatesHere[2].move))
           => Top(board') = PushPos(Top(board), CandidatesHere[1].move) ]_vars

\* White's trie holds 1.e4 and then 1.Nf3 at the start, and the reply to
\* 1.e4 e5 from the mainline's subtree; the walk has played 1.e4.
C14_Witness ==
    /\ pc \in {"simulate", "report", "done", "exit1"}
    /\ Fen(StartPos) \in DOMAIN white_tree
    /\ Len(white_tree[Fen(StartPos)]) = 2
    /\ white_tree[Fen(StartPos)][1].move = "e2e4"
    /\ white_tree[Fen(StartPos)][2].move = "g1f3"
    /\ Fen(PushPos(PushPos(StartPos, "e2e4"), "e7e5")) \in DOMAIN white_tree
    /\ Len(board) >= 2
    /\ board[2] = PushPos(StartPos, "e2e4")


(***************************************************************************)
(* C15.  A traversal hands the shared board back as it received it: when   *)
(* process_white_node or process_black_node has returned for a game, the   *)
(* board is the board at entry, and, the board having been restored before *)
(* each sibling on every path through the loop body, every candidate the   *)
(* game put into an empty trie stands under the key of the position of the *)
(* node that recorded it.                                                  *)
(***************************************************************************)
C15_RollbackBetweenSiblings ==
    (pc \in {"build_white", "build_black"} /\ last_game # <<>>) =>
       /\ board = NewBoard
       /\ game_count = 1 =>
             \A k \in DOMAIN BuildTree :
                \A c \in 1..Len(BuildTree[k]) :
                   \E n \in 1..Len(last_game) :
                      /\ Reached(last_game, n)
                      /\ NodePos(last_game, n).turn = BuildSide
                      /\ Fen(NodePos(last_game, n)) = k
                      /\ last_game[n].move = BuildTree[k][c].move


(***************************************************************************)
(* C16.  In both builds a recorded move of the indexed side that is not    *)
(* legal in the position where it is recorded is skipped: every candidate  *)
(* of either trie is a move of the trie's side that is legal in the        *)
(* position of its key.                                                    *)
(***************************************************************************)
KeyPos(k) == [pl |-> k[1], turn |-> k[2], half |-> k[3], full |-> k[4]]

OnlyLegalCandidates(tree, side) ==
    \A k \in DOMAIN tree :
       \A c \in 1..Len(tree[k]) :
          KeyPos(k).turn = side /\ IsLegal(KeyPos(k), tree[k][c].move)

C16_IllegalOwnMoveSkipped ==
    /\ OnlyLegalCandidates(white_tree, "w")
    /\ OnlyLegalCandidates(black_tree, "b")

(***************************************************************************)
(* C17.  When a recorded move of either colour is not legal in the         *)
(* position its ancestors lead to, nothing below it is indexed: after a    *)
(* game has been traversed into an empty trie, no node with such a move    *)
(* among its ancestors has its edge in the trie.                           *)
(***************************************************************************)
C17_SubtreeTruncated ==
    (BuildRuns /\ game_count = 1) =>
       \A n \in 1..Len(last_game) :
          (/\ Reached(last_game, n)
           /\ IllegalAbove(last_game, n)
           /\ NodePos(last_game, n).turn = BuildSide)
          => ~Recorded(BuildTree, Fen(NodePos(last_game, n)), last_game[n].move)


(***************************************************************************)
(* C18.  A malformed branch never aborts indexing.  After a game has been  *)
(* traversed into an empty trie the build is still running, and every edge *)
(* that the game would give without its malformed branches (the nodes not  *)
(* reached through legal moves) is in the trie, with the same child key    *)
(* and in the same order among the candidates of its position.             *)
(***************************************************************************)
\* the game without its malformed branches: they hang on no node
Pruned(g) ==
    [n \in 1..Len(g) |-> IF LegalPath(g, n) THEN g[n] ELSE N(-1, g[n].move)]

PrunedTree(g, side) ==
    IF side = "w"
    THEN process_white_node(Pruned(g), 0, NewBoard, EmptyTree, "yes").tree
    ELSE process_black_node(Pruned(g), 0, NewBoard, EmptyTree, "yes").tree

IndexIn(cands, e) == CHOOSE i \in 1..Len(cands) : cands[i] = e

C19_NoGamesFailsFast ==
    no_games # {} =>
       /\ san_sequence = <<>>
       /\ lookups = <<>>
       /\ result = NoResult


(***************************************************************************)
(* C20.  An illegal candidate ends the walk without a crash: when the      *)
(* first candidate of the current position is not legal there, the ply     *)
(* applies no move, the position and the history stay exactly as they were *)
(* before the ply, and simulate_game returns them to main as its result,   *)
(* the stop being marked as an illegal candidate of the side to move.      *)
(***************************************************************************)
C20_IllegalCandidateIsTerminal ==
    [][ (/\ pc = "simulate"
         /\ Len(san_sequence) < MaxPly
         /\ CandidatesHere # <<>>
         /\ ~IsLegal(Top(board), CandidatesHere[1].move))
        => /\ board' = board
           /\ san_sequence' = san_sequence
           /\ stop' = <<"illegal", Top(board).turn>>
           /\ pc' = "report" ]_vars

\* White's first candidate at the start was illegal: the returned position
\* is the start position, the history is empty, and the lookup has answered
\* for that position.
C20_Witness ==
    /\ pc = "done"
    /\ stop = <<"illegal", "w">>
    /\ san_sequence = <<>>
    /\ board = NewBoard
    /\ CandidatesHere # <<>>
    /\ lookups = <<Fen(StartPos)>>


(***************************************************************************)
(* C21.  The tries are read-only once built: no iteration of simulate_game *)
(* and no step of the report after it inserts into, removes from or        *)
(* reorders either trie, so both tries after the walk are the tries before *)
(* it.                                                                     *)
(***************************************************************************)
C21_TriesReadOnly ==
    [][ (pc \in {"simulate", "report"})
        => (white_tree' = white_tree /\ black_tree' = black_tree) ]_vars

\* A walk of two plies or more has ended out of book, both tries having
\* entries.
C21_Witness ==
    /\ pc = "report"
    /\ stop[1] = "out_of_book"
    /\ Len(san_sequence) >= 2
    /\ white_tree # EmptyTree
    /\ black_tree # EmptyTree

(***************************************************************************)
(* C22.  Transpositions share one trie entry: positions recorded in a trie *)
(* with the same board state (the same placement, which stands for pieces, *)
(* castling and en-passant rights, and the same side to move) are recorded *)
(* under one key, whatever the order of moves that led to them.            *)
(***************************************************************************)
SameBoardState(k1, k2) == k1[1] = k2[1] /\ k1[2] = k2[2]

OneKeyPerBoardState(tree) ==
    \A k1, k2 \in DOMAIN tree : SameBoardState(k1, k2) => k1 = k2

C22_TranspositionsShareKey ==
    /\ OneKeyPerBoardState(white_tree)
    /\ OneKeyPerBoardState(black_tree)


(***************************************************************************)
(* C23.  Side filter: every key of the white trie is a position with White *)
(* to move and every key of the black trie one with Black to move; every   *)
(* candidate moves a piece of the trie's side and its child key has the    *)
(* other side to move; and after a game has been traversed into an empty   *)
(* trie, no position of the game in which the opponent is to move is a key *)
(* of the trie: the opponent's plies only advance the traversal.           *)
(***************************************************************************)
OnlyPliesOf(tree, side) ==
    \A k \in DOMAIN tree :
       /\ k[2] = side
       /\ \A c \in 1..Len(tree[k]) :
             /\ tree[k][c].child[2] = Other(side)
             /\ HasRow(KeyPos(k), tree[k][c].move)
             /\ Row(KeyPos(k), tree[k][c].move).side = side

C23_SideFilter ==
    /\ OnlyPliesOf(white_tree, "w")
    /\ OnlyPliesOf(black_tree, "b")
    /\ (BuildRuns /\ game_count = 1) =>
          \A n \in 1..Len(last_game) :
             (Reached(last_game, n) /\ NodePos(last_game, n).turn # BuildSide)
                => Fen(NodePos(last_game, n)) \notin DOMAIN BuildTree

\* The black build has traversed a game of four plies or more and recorded
\* two positions or more.
C23_Witness ==
    /\ pc = "build_black"
    /\ game_count = 1
    /\ Len(last_game) >= 4
    /\ Cardinality(DOMAIN black_tree) >= 2


(***************************************************************************)
(* C24.  No lookahead into the opponent's book: what an iteration of the   *)
(* walk does (the move played, or the stop) is what simulate_game does     *)
(* with the same position and the same trie of the side to move when the   *)
(* opponent's trie is replaced by any other: the empty trie or the trie of *)
(* any one game of the opponent's file.                                    *)
(***************************************************************************)
OtherTries(side) ==
    {EmptyTree} \cup
    (IF side = "w"
     THEN {process_white_node(g, 0, NewBoard, EmptyTree, "yes").tree : g \in WhiteGames}
     ELSE {process_black_node(g, 0, NewBoard, EmptyTree, "yes").tree : g \in BlackGames})

WithOpponent(alt) ==
    IF Top(board).turn = "w"
    THEN simulate_game(white_tree, alt, board, san_sequence)
    ELSE simulate_game(alt, black_tree, board, san_sequence)

C24_NoLookahead ==
    [][ (pc = "simulate" /\ Len(san_sequence) < MaxPly)
        => \A alt \in OtherTries(Other(Top(board).turn)) :
              /\ board' = WithOpponent(alt).board
              /\ san_sequence' = WithOpponent(alt).san
              /\ stop' = WithOpponent(alt).stop ]_vars

\* White's candidates at the start are 1.e4 and then 1.Nf3; Black's trie
\* answers 1.Nf3 and not 1.e4; the walk played 1.e4 and Black was out of
\* book.
C24_Witness ==
    /\ pc = "report"
    /\ stop = <<"out_of_book", "b">>
    /\ board = <<StartPos, PushPos(StartPos, "e2e4")>>
    /\ Fen(StartPos) \in DOMAIN white_tree
    /\ Len(white_tree[Fen(StartPos)]) = 2
    /\ white_tree[Fen(StartPos)][2].move = "g1f3"
    /\ Fen(PushPos(StartPos, "g1f3")) \in DOMAIN black_tree
    /\ Fen(PushPos(StartPos, "e2e4")) \notin DOMAIN black_tree


(***************************************************************************)
(* C25.  Phase ordering.  While a build is running no ply has been taken   *)
(* and nothing has been looked up or reported; the history grows only in   *)
(* the walk, and the tries change only in their own build, before it; a    *)
(* mate record or a lookup exists only once the walk has stopped, and the  *)
(* one key handed to the lookup is the key of the walk's final position.   *)
(***************************************************************************)
C25_PhaseOrdering ==
    /\ []((pc \in {"build_white", "build_black", "crashed"})
            => (/\ san_sequence = <<>>
                /\ stop = <<>>
                /\ lookups = <<>>
                /\ result = NoResult))
    /\ []((pc = "simulate")
            => (stop = <<>> /\ lookups = <<>> /\ result = NoResult))
    /\ []((lookups # <<>> \/ result # NoResult)
            => (/\ pc \in {"done", "exit1"}
                /\ stop # <<>>
                /\ lookups \in {<<>>, <<Fen(Top(board))>>}))
    /\ [][ /\ (san_sequence' # san_sequence) => (pc = "simulate")
           /\ (white_tree' # white_tree) => (pc = "build_white")
           /\ (black_tree' # black_tree) => (pc = "build_black")
           /\ (lookups' # lookups \/ result' # result)
                 => (pc = "report" /\ board' = board) ]_vars

\* A walk of three plies or more has stopped out of book and its final key
\* has been handed to the lookup.
C25_Witness ==
    /\ pc = "done"
    /\ stop[1] = "out_of_book"
    /\ Len(san_sequence) >= 3
    /\ lookups = <<Fen(Top(board))>>


(***************************************************************************)
(* C26.  The two builds share no mutable state.  A step of one build       *)
(* leaves the other side's trie alone, and each side's trie is at every    *)
(* moment one of the tries its build makes on its own, from an empty trie  *)
(* and a fresh board for each game, whatever the other build has done: so  *)
(* the order of the two builds does not show in either trie.               *)
(***************************************************************************)
RECURSIVE BuiltAlone(_, _)
\* the tries one side's build can hold after n games or fewer
BuiltAlone(side, n) ==
    IF n = 0 THEN {EmptyTree}
    ELSE LET prev == BuiltAlone(side, n - 1)
         IN  prev \cup
             (IF side = "w"
              THEN {process_white_node(g, 0, NewBoard, t, a).tree :
                       <<g, t, a>> \in WhiteGames \X prev \X {"yes", "no"}}
              ELSE {process_black_node(g, 0, NewBoard, t, a).tree :
                       <<g, t, a>> \in BlackGames \X prev \X {"yes", "no"}})

WhiteAlone == BuiltAlone("w", MaxGames)

BlackAlone == BuiltAlone("b", MaxGames)

SideOfPly(k) == IF k % 2 = 1 THEN "w" ELSE "b"

TrieOfPly(k) == IF k % 2 = 1 THEN white_tree ELSE black_tree

C27_SidesAlternate ==
    (pc \in {"simulate", "report", "done", "exit1"}) =>
       /\ board[1] = StartPos
       /\ StartPos.turn = "w"
       /\ Len(board) = Len(san_sequence) + 1
       /\ \A k \in 1..Len(board) : board[k].turn = SideOfPly(k)
       /\ \A k \in 1..Len(san_sequence) :
             /\ InBook(TrieOfPly(k), Fen(board[k]))
             /\ board[k + 1]
                   = PushPos(board[k], Candidate(TrieOfPly(k)[Fen(board[k])]))
             /\ san_sequence[k]
                   = San(board[k], Candidate(TrieOfPly(k)[Fen(board[k])]))
       /\ (stop # <<>>) => (stop[2] = SideOfPly(Len(san_sequence) + 1))

\* After four plies White was out of book.
C27_Witness ==
    /\ pc = "report"
    /\ stop = <<"out_of_book", "w">>
    /\ Len(san_sequence) = 4


(***************************************************************************)
(* C28.  Every move the walk applies is legal in the position at which it  *)
(* is applied: an iteration that changes the board appends exactly one     *)
(* position, the one obtained by applying the first candidate to the live  *)
(* position, and that candidate is among the legal moves there; every      *)
(* position of the walk comes from its predecessor by a legal move.        *)
(***************************************************************************)
C28_AppliedMovesLegal ==
    /\ [][ (pc = "simulate" /\ board' # board)
           => (/\ CandidatesHere # <<>>
               /\ CandidatesHere[1].move \in LegalMoves(Top(board))
               /\ board' = Append(board,
                                   PushPos(Top(board), CandidatesHere[1].move))) ]_vars
    /\ []((pc \in {"simulate", "report", "done", "exit1"})
            => \A k \in 1..(Len(board) - 1) :
                  \E m \in LegalMoves(board[k]) : board[k + 1] = PushPos(board[k], m))

\* Three plies have been applied and the walk goes on.
C28_Witness ==
    /\ pc = "simulate"
    /\ Len(san_sequence) = 3
    /\ Len(board) = 4


(***************************************************************************)
(* C29.  Every position key present in a trie has at least one candidate:  *)
(* no key maps to an empty candidate list, so that for the tries of a run  *)
(* "the key is present" and "the key is present with candidates" are the   *)
(* same test at every position of the walk.                                *)
(***************************************************************************)
NoEmptyEntry(tree) == \A k \in DOMAIN tree : tree[k] # <<>>

C29_NoEmptyCandidateList ==
    /\ NoEmptyEntry(white_tree)
    /\ NoEmptyEntry(black_tree)
    /\ (pc \in {"simulate", "report", "done", "exit1"}) =>
          \A k \in 1..Len(board) :
             /\ InBook(white_tree, Fen(board[k])) <=> Fen(board[k]) \in DOMAIN white_tree
             /\ InBook(black_tree, Fen(board[k])) <=> Fen(board[k]) \in DOMAIN black_tree

\* Both builds have left tries of four keys or more and the walk has looked
\* up three positions or more.
C29_Witness ==
    /\ pc = "done"
    /\ Len(board) >= 3
    /\ Cardinality(DOMAIN white_tree) >= 4
    /\ Cardinality(DOMAIN black_tree) >= 4


(***************************************************************************)
(* C30.  Edge consistency: for every edge (key, move) -> child in a trie   *)
(* the move can be made in the position of the key and the child is the    *)
(* key of the position it gives.  The child a build offers for a pair is   *)
(* therefore the child recorded for it: where a node of the traversed game *)
(* finds its pair recorded, the recorded child is the one the node gives,  *)
(* and no insertion conflict arises.                                       *)
(***************************************************************************)
EdgesConsistent(tree) ==
    \A k \in DOMAIN tree :
       \A c \in 1..Len(tree[k]) :
          /\ HasRow(KeyPos(k), tree[k][c].move)
          /\ tree[k][c].child = Fen(PushPos(KeyPos(k), tree[k][c].move))

C30_EdgeConsistency ==
    /\ EdgesConsistent(white_tree)
    /\ EdgesConsistent(black_tree)
    /\ BuildRuns =>
          \A n \in 1..Len(last_game) :
             (/\ Reached(last_game, n)
              /\ HasRow(NodePos(last_game, n), last_game[n].move)
              /\ Recorded(BuildTree, Fen(NodePos(last_game, n)), last_game[n].move))
             => \E c \in 1..Len(BuildTree[Fen(NodePos(last_game, n))]) :
                   BuildTree[Fen(NodePos(last_game, n))][c] = Edge(last_game, n)

\* The white build has read a second game and holds a position with two
\* candidates that lead to different positions.
C30_Witness ==
    /\ pc = "build_white"
    /\ game_count = 2
    /\ \E k \in DOMAIN white_tree :
          /\ Len(white_tree[k]) >= 2
          /\ white_tree[k][1].child # white_tree[k][2].child


(***************************************************************************)
(* C31.  During one walk no position key is looked up twice.  The key of   *)
(* the k-th position of the walk carries the side to move of ply k and the *)
(* fullmove number of ply k, which advance with every applied ply, so the  *)
(* keys of the walk's positions are pairwise different; the plies White    *)
(* has played are at most the keys of the white trie, those of Black at    *)
(* most the keys of the black trie, and the plies played at most the keys  *)
(* of both.                                                                *)
(***************************************************************************)
PliesOf(side) == {k \in 1..Len(san_sequence) : SideOfPly(k) = side}

C31_NoKeyLookedUpTwice ==
    (pc \in {"simulate", "report", "done", "exit1"}) =>
       /\ \A k \in 1..Len(board) :
             /\ Fen(board[k])[2] = SideOfPly(k)
             /\ Fen(board[k])[4] = (k + 1) \div 2
       /\ \A i, j \in 1..Len(board) :
             (i # j) => (Fen(board[i]) # Fen(board[j]))
       /\ Cardinality(PliesOf("w")) <= Cardinality(DOMAIN white_tree)
       /\ Cardinality(PliesOf("b")) <= Cardinality(DOMAIN black_tree)
       /\ Len(san_sequence)
             <= Cardinality(DOMAIN white_tree) + Cardinality(DOMAIN black_tree)

\* A walk of five plies or more whose fifth position has the placement of
\* its first: the same placement was looked up under two keys.
C31_Witness ==
    /\ pc = "report"
    /\ Len(board) >= 6
    /\ board[5].pl = board[1].pl
    /\ Fen(board[5]) # Fen(board[1])


(***************************************************************************)
(* C32.  In the line-based simulate_opening every black move played is     *)
(* taken from a recorded black game that agrees with the line played so    *)
(* far: the game's white moves begin with the white moves played, and its  *)
(* earlier black moves are the black moves played, one by one.             *)
(***************************************************************************)
C32_ReplyFromAgreeingGame ==
    [][ (pc = "opening" /\ black_index' = black_index + 1)
        => LET game == black_games[CandidateIndex(black_games, played_white_moves)]
           IN  /\ Matches(game, played_white_moves)
               /\ Len(game.black_moves) > black_index
               /\ game.black_moves[black_index + 1]
                     = Uci(move_stack'[Len(move_stack')])
               /\ \A k \in 1..black_index :
                     game.black_moves[k] = Uci(move_stack[2 * k]) ]_vars

=============================================================================
